---- MODULE Spec2Model ----
(***************************************************************************)
(* A model of the MDGP operator pipeline (mdgp_processors/pipeline.py), of *)
(* its operators, of the model registry and of the model backends          *)
(* (mdgp_processors/models).                                               *)
(*                                                                         *)
(* A dataset is a record [cols, rows]: cols is the set of column names and *)
(* rows the sequence of rows, each row a function from cols to values.     *)
(* Python's None, where a dataset is expected, is the record NoneDF.       *)
(***************************************************************************)
EXTENDS Integers, Sequences, FiniteSets, TLC

VARIABLES operators, dataframe, lastRun, registry, regLog, lastCreate,
          modelOp, lastCall, ds, lastApply, backend, lastClose

vars == <<operators, dataframe, lastRun, registry, regLog, lastCreate,
          modelOp, lastCall, ds, lastApply, backend, lastClose>>
lifeVars == <<backend, lastClose>>
pipelineVars == <<operators, dataframe, lastRun>>
factoryVars == <<registry, regLog, lastCreate>>
modelVars == <<modelOp, lastCall>>
opsVars == <<ds, lastApply>>

(***************************************************************************)
(* Bounds.                                                                 *)
(***************************************************************************)
MaxOps == 3
MaxRegs == 3

(***************************************************************************)
(* Datasets.                                                               *)
(***************************************************************************)
NoneDF == [none |-> TRUE]

MkDF(cols, rows) == [cols |-> cols, rows |-> rows]

\* datasets a caller attaches with set_input
InputA ==
  MkDF({"text", "quality"},
       << [text |-> "ab", quality |-> 2],
          [text |-> "abcdefghij", quality |-> 0],
          [text |-> "abcdef", quality |-> 1] >>)
InputB == MkDF({"text"}, << [text |-> "hello world"], [text |-> "hi"] >>)
Inputs == {InputA, InputB}

\* the content of the files a reader can load
SamplePath == "data/texts/sample.csv"
SampleCsv ==
  MkDF({"text", "quality"},
       << [text |-> "abcde", quality |-> 1],
          [text |-> "xy", quality |-> 3],
          [text |-> "abcdefg", quality |-> 0] >>)
ExistingFiles == {SamplePath}
FileContent(path) == SampleCsv

OutPath == "output/processed_data.csv"
DeniedPath == "/proc/denied.csv"
UnwritablePaths == {DeniedPath, "/proc/denied.lance"}

(***************************************************************************)
(* Dataset engine operations used by the operators.                        *)
(***************************************************************************)
\* daft's with_column: the column is added, or replaced when it exists;
\* val[i] is the new column's value in row i
WithColumn(df, name, val) ==
  MkDF(df.cols \cup {name},
       [i \in 1..Len(df.rows) |->
          [c \in df.cols \cup {name} |->
             IF c = name THEN val[i] ELSE df.rows[i][c]]])

\* daft's drop (exclude) of a column
DropColumn(df, name) ==
  MkDF(df.cols \ {name},
       [i \in 1..Len(df.rows) |-> [c \in df.cols \ {name} |-> df.rows[i][c]]])

\* a null (None) cell of a numeric column is NoneInt, of a string column
\* NoneStr; a comparison with a null cell is null, and filter drops the row
NoneInt == -1   \* None, where the code expects an int
NoneStr == "<None>"   \* None, where the code expects a str

\* daft's filter with the predicate column >= bound
FilterGe(df, col, bound) ==
  MkDF(df.cols,
       SelectSeq(df.rows, LAMBDA r : r[col] # NoneInt /\ r[col] >= bound))

\* daft's filter with the predicate column <= bound
FilterLe(df, col, bound) ==
  MkDF(df.cols,
       SelectSeq(df.rows, LAMBDA r : r[col] # NoneInt /\ r[col] <= bound))

\* daft's filter with the predicate column.is_not_null(), on a string column
FilterNotNull(df, col) ==
  MkDF(df.cols, SelectSeq(df.rows, LAMBDA r : r[col] # NoneStr))

\* column.str.len(): the length of each string, null for a null string
StrLen(v) == IF v = NoneStr THEN NoneInt ELSE Len(v)

(***************************************************************************)
(* Operators.  An operator is a record of its class (kind) and its         *)
(* configuration.  Process(op, df) is op.process(df): a record             *)
(* [raised, error, df]; df is the dataset returned when raised is FALSE.   *)
(***************************************************************************)
BaseOperator == [kind |-> "Operator"]
CSVReader(file_path) == [kind |-> "CSVReader", file_path |-> file_path]
TextLengthFilter(text_column, min_length, max_length) ==
  [kind |-> "TextLengthFilter", text_column |-> text_column,
   min_length |-> min_length, max_length |-> max_length]
QualityScoreFilter(score_column, min_score) ==
  [kind |-> "QualityScoreFilter", score_column |-> score_column,
   min_score |-> min_score]
CSVWriter(file_path) == [kind |-> "CSVWriter", file_path |-> file_path]
LanceWriter(file_path) == [kind |-> "LanceWriter", file_path |-> file_path]
AudioDurationFilter(min_duration, max_duration) ==
  [kind |-> "AudioDurationFilter", text_column |-> "text",
   min_duration |-> min_duration, max_duration |-> max_duration]
ImageResolutionFilter(text_column, min_width, min_height, max_width, max_height) ==
  [kind |-> "ImageResolutionFilter", text_column |-> text_column,
   min_width |-> min_width, min_height |-> min_height,
   max_width |-> max_width, max_height |-> max_height]

Returned(df) == [raised |-> FALSE, error |-> "", df |-> df]
Raised(error) == [raised |-> TRUE, error |-> error, df |-> NoneDF]

\* Operator.process: the base class raises
OperatorProcess(op, df) == Raised("NotImplementedError")

\* CSVReader.process: the input is ignored, the file is loaded
CSVReaderProcess(op, df) ==
  IF op.file_path \in ExistingFiles
  THEN Returned(FileContent(op.file_path))
  ELSE Raised("FileNotFoundError")

\* the filter with both bounds exclusive
TextLengthFilterProcessExclusive(op, df) ==
  IF df = NoneDF THEN Raised("AttributeError")
  ELSE IF op.text_column \notin df.cols THEN Raised("ColumnNotFound")
  ELSE
    LET d1 == WithColumn(df, "text_length",
                [i \in 1..Len(df.rows) |-> StrLen(df.rows[i][op.text_column])])
        d2 == IF op.min_length > 0
              THEN FilterGe(d1, "text_length", op.min_length + 1) ELSE d1
        d3 == IF op.max_length # NoneInt
              THEN FilterLe(d2, "text_length", op.max_length - 1) ELSE d2
    IN Returned(DropColumn(d3, "text_length"))

\* the filter dropping the text column in place of the temporary column
TextLengthFilterProcessDropsText(op, df) ==
  IF df = NoneDF THEN Raised("AttributeError")
  ELSE IF op.text_column \notin df.cols THEN Raised("ColumnNotFound")
  ELSE
    LET d1 == WithColumn(df, "text_length",
                [i \in 1..Len(df.rows) |-> StrLen(df.rows[i][op.text_column])])
        d2 == IF op.min_length > 0
              THEN FilterGe(d1, "text_length", op.min_length) ELSE d1
        d3 == IF op.max_length # NoneInt
              THEN FilterLe(d2, "text_length", op.max_length) ELSE d2
    IN Returned(DropColumn(d3, op.text_column))

\* TextLengthFilter.process
TextLengthFilterProcess(op, df) ==
  IF df = NoneDF THEN Raised("AttributeError")
  ELSE IF op.text_column \notin df.cols THEN Raised("ColumnNotFound")
  ELSE
    LET d1 == WithColumn(df, "text_length",
                [i \in 1..Len(df.rows) |-> StrLen(df.rows[i][op.text_column])])
        d2 == IF op.min_length > 0
              THEN FilterGe(d1, "text_length", op.min_length) ELSE d1
        d3 == IF op.max_length # NoneInt
              THEN FilterLe(d2, "text_length", op.max_length) ELSE d2
    IN Returned(DropColumn(d3, "text_length"))

\* QualityScoreFilter.process
QualityScoreFilterProcess(op, df) ==
  IF df = NoneDF THEN Raised("AttributeError")
  ELSE IF op.score_column \notin df.cols THEN Raised("ColumnNotFound")
  ELSE Returned(FilterGe(df, op.score_column, op.min_score))

\* AudioDurationFilter.process
AudioDurationFilterProcess(op, df) ==
  IF df = NoneDF THEN Raised("AttributeError")
  ELSE IF op.min_duration <= 0 /\ op.max_duration = NoneInt THEN Returned(df)
  ELSE IF "duration" \notin df.cols THEN Raised("ColumnNotFound")
  ELSE
    LET d1 == IF op.min_duration > 0
              THEN FilterGe(df, "duration", op.min_duration) ELSE df
        d2 == IF op.max_duration # NoneInt
              THEN FilterLe(d1, "duration", op.max_duration) ELSE d1
    IN Returned(d2)

\* the filter keeping the rows whose text key is null
ImageResolutionFilterProcessKeepsNullText(op, df) ==
  IF df = NoneDF THEN Raised("AttributeError")
  ELSE IF op.text_column \notin df.cols THEN Raised("ColumnNotFound")
  ELSE IF /\ (op.min_width > 0 \/ op.max_width # NoneInt)
          /\ "width" \notin df.cols THEN Raised("ColumnNotFound")
  ELSE IF /\ (op.min_height > 0 \/ op.max_height # NoneInt)
          /\ "height" \notin df.cols THEN Raised("ColumnNotFound")
  ELSE
    LET d0 == df
        d1 == IF op.min_width > 0
              THEN FilterGe(d0, "width", op.min_width) ELSE d0
        d2 == IF op.max_width # NoneInt
              THEN FilterLe(d1, "width", op.max_width) ELSE d1
        d3 == IF op.min_height > 0
              THEN FilterGe(d2, "height", op.min_height) ELSE d2
        d4 == IF op.max_height # NoneInt
              THEN FilterLe(d3, "height", op.max_height) ELSE d3
    IN Returned(d4)

\* ImageResolutionFilter.process
ImageResolutionFilterProcess(op, df) ==
  IF df = NoneDF THEN Raised("AttributeError")
  ELSE IF op.text_column \notin df.cols THEN Raised("ColumnNotFound")
  ELSE IF /\ (op.min_width > 0 \/ op.max_width # NoneInt)
          /\ "width" \notin df.cols THEN Raised("ColumnNotFound")
  ELSE IF /\ (op.min_height > 0 \/ op.max_height # NoneInt)
          /\ "height" \notin df.cols THEN Raised("ColumnNotFound")
  ELSE
    LET d0 == FilterNotNull(df, op.text_column)
        d1 == IF op.min_width > 0
              THEN FilterGe(d0, "width", op.min_width) ELSE d0
        d2 == IF op.max_width # NoneInt
              THEN FilterLe(d1, "width", op.max_width) ELSE d1
        d3 == IF op.min_height > 0
              THEN FilterGe(d2, "height", op.min_height) ELSE d2
        d4 == IF op.max_height # NoneInt
              THEN FilterLe(d3, "height", op.max_height) ELSE d3
    IN Returned(d4)

\* the writer returning what write_csv returns: the list of written files
CSVWriterProcessReturnsWritten(op, df) ==
  IF df = NoneDF THEN Raised("AttributeError")
  ELSE IF op.file_path \in UnwritablePaths THEN Raised("PermissionError")
  ELSE Returned(MkDF({"path"}, << [path |-> op.file_path] >>))

\* CSVWriter.process: the dataset is persisted, the input is returned
CSVWriterProcess(op, df) ==
  IF df = NoneDF THEN Raised("AttributeError")
  ELSE IF op.file_path \in UnwritablePaths THEN Raised("PermissionError")
  ELSE Returned(df)

\* LanceWriter.process: the dataset is persisted, the input is returned
LanceWriterProcess(op, df) ==
  IF df = NoneDF THEN Raised("AttributeError")
  ELSE IF op.file_path \in UnwritablePaths THEN Raised("PermissionError")
  ELSE Returned(df)

\* dynamic dispatch of operator.process(dataframe)
Process(op, df) ==
  CASE op.kind = "Operator" -> OperatorProcess(op, df)
    [] op.kind = "CSVReader" -> CSVReaderProcess(op, df)
    [] op.kind = "TextLengthFilter" -> TextLengthFilterProcess(op, df)
    [] op.kind = "QualityScoreFilter" -> QualityScoreFilterProcess(op, df)
    [] op.kind = "CSVWriter" -> CSVWriterProcess(op, df)
    [] op.kind = "LanceWriter" -> LanceWriterProcess(op, df)
    [] op.kind = "AudioDurationFilter" -> AudioDurationFilterProcess(op, df)
    [] op.kind = "ImageResolutionFilter" ->
         ImageResolutionFilterProcess(op, df)

\* the operators a caller adds to a pipeline
OperatorPool ==
  { BaseOperator,
    CSVReader(SamplePath),
    TextLengthFilter("text", 5, NoneInt),
    QualityScoreFilter("quality", 1),
    CSVWriter(OutPath),
    CSVWriter(DeniedPath) }

\* a dataset of media records: text key, image size, audio duration, a
\* quality score and a column named text_length; cells may be null
MediaA ==
  MkDF({"text", "width", "height", "duration", "quality", "text_length"},
       << [text |-> "cat", width |-> 3, height |-> 3, duration |-> 3,
           quality |-> 2, text_length |-> 9],
          [text |-> NoneStr, width |-> 3, height |-> 3, duration |-> 4,
           quality |-> 1, text_length |-> 0],
          [text |-> "a", width |-> NoneInt, height |-> 2, duration |-> 5,
           quality |-> 0, text_length |-> 1],
          [text |-> "horse", width |-> 4, height |-> NoneInt,
           duration |-> NoneInt, quality |-> 3, text_length |-> 5],
          [text |-> "dog", width |-> 5, height |-> 5, duration |-> 1,
           quality |-> NoneInt, text_length |-> 3] >>)
MediaB ==
  MkDF({"text", "width", "height", "duration", "quality"},
       << [text |-> "ab", width |-> 2, height |-> 4, duration |-> 2,
           quality |-> 1],
          [text |-> "abcd", width |-> 1, height |-> 1, duration |-> 6,
           quality |-> 0],
          [text |-> "abc", width |-> 4, height |-> 2, duration |-> 5,
           quality |-> 2] >>)

\* the range and threshold filters a caller adds to a pipeline
FilterPool ==
  { TextLengthFilter("text", 3, NoneInt),
    QualityScoreFilter("quality", 1),
    QualityScoreFilter("text_length", 3),
    AudioDurationFilter(2, 5),
    ImageResolutionFilter("text", 2, 0, 4, NoneInt),
    ImageResolutionFilter("text", 0, 2, NoneInt, 4) }

\* writers, with operators that change the dataset around them
WriterPool ==
  { CSVWriter(OutPath),
    CSVWriter(DeniedPath),
    LanceWriter("output/processed.lance"),
    LanceWriter("/proc/denied.lance"),
    TextLengthFilter("text", 5, NoneInt),
    QualityScoreFilter("quality", 1) }

(***************************************************************************)
(* DataPipeline.                                                           *)
(***************************************************************************)
\* lastRun describes the most recent call of run: its outcome (status, error,
\* result), the process invocations it made (calls), the operator list and
\* the attached dataset it started from (ops, input), and the status and
\* input of the run before it (prev)
NoPrev == [status |-> "none", input |-> NoneDF, nops |-> 0]
NoRun ==
  [status |-> "none", error |-> "", result |-> NoneDF, calls |-> <<>>,
   ops |-> <<>>, input |-> NoneDF, prev |-> NoPrev]

Reverse(s) == [i \in 1..Len(s) |-> s[Len(s) + 1 - i]]

\* the for loop of DataPipeline.run from position i on: result is the
\* current dataset, calls the log of the process invocations made so far
RECURSIVE RunLoop(_, _, _, _)
RunLoop(ops, i, result, calls) ==
  IF i > Len(ops)
  THEN [status |-> "returned", error |-> "", result |-> result, calls |-> calls]
  ELSE
    LET out == Process(ops[i], result)
        log == Append(calls, [pos |-> i, op |-> ops[i], input |-> result])
    IN IF out.raised
       THEN [status |-> "raised", error |-> out.error, result |-> NoneDF,
             calls |-> log]
       ELSE RunLoop(ops, i + 1, out.df, log)

\* run applying the operators in reverse order
RunOutcomeReversed(ops, df) ==
  IF df = NoneDF
  THEN [status |-> "raised", error |-> "ValueError", result |-> NoneDF,
        calls |-> <<>>]
  ELSE LET o == RunLoop(Reverse(ops), 1, df, <<>>)
       IN [o EXCEPT !.calls =
             [i \in 1..Len(o.calls) |->
                [o.calls[i] EXCEPT !.pos = Len(ops) + 1 - o.calls[i].pos]]]

\* run without the check of the attached dataset
RunOutcomeNoGuard(ops, df) == RunLoop(ops, 1, df, <<>>)

\* run wrapping an operator's error in an error of its own
RunOutcomeWrapped(ops, df) ==
  IF df = NoneDF
  THEN [status |-> "raised", error |-> "ValueError", result |-> NoneDF,
        calls |-> <<>>]
  ELSE LET o == RunLoop(ops, 1, df, <<>>)
       IN IF o.status = "raised" THEN [o EXCEPT !.error = "RuntimeError"]
          ELSE o

\* run refusing to start once a run has failed
RunOutcomeSticky(ops, df) ==
  IF df = NoneDF \/ lastRun.status = "raised"
  THEN [status |-> "raised", error |-> "ValueError", result |-> NoneDF,
        calls |-> <<>>]
  ELSE RunLoop(ops, 1, df, <<>>)

\* DataPipeline.run as a function of the pipeline's fields
RunOutcome(ops, df) ==
  IF df = NoneDF
  THEN [status |-> "raised", error |-> "ValueError", result |-> NoneDF,
        calls |-> <<>>]
  ELSE RunLoop(ops, 1, df, <<>>)

\* run keeping its result as the attached dataset
RunFieldsStoreResult(ops, df, out) ==
  [operators |-> ops,
   dataframe |-> IF out.status = "returned" THEN out.result ELSE df]

\* what run leaves in the pipeline's fields
RunFields(ops, df, out) == [operators |-> ops, dataframe |-> df]

AddOperator(operator) ==
  /\ Len(operators) < MaxOps
  /\ operators' = Append(operators, operator)
  /\ UNCHANGED <<lifeVars, dataframe, lastRun, factoryVars, modelVars, opsVars>>

SetInput(df) ==
  /\ dataframe' = df
  /\ UNCHANGED <<lifeVars, operators, lastRun, factoryVars, modelVars, opsVars>>

Run ==
  LET out == RunOutcome(operators, dataframe)
      fields == RunFields(operators, dataframe, out)
  IN /\ lastRun' = [status |-> out.status, error |-> out.error,
                    result |-> out.result, calls |-> out.calls,
                    ops |-> operators, input |-> dataframe,
                    prev |-> [status |-> lastRun.status,
                              input |-> lastRun.input,
                              nops |-> Len(lastRun.ops)]]
     /\ operators' = fields.operators
     /\ dataframe' = fields.dataframe
     /\ UNCHANGED <<lifeVars, factoryVars, modelVars, opsVars>>

(***************************************************************************)
(* ModelFactory.                                                           *)
(*                                                                         *)
(* registry is _model_registry: a function from the registered names to    *)
(* the registered classes.  regLog is the history of register_model calls  *)
(* and lastCreate the most recent create_model call with its outcome.      *)
(***************************************************************************)
BackendNames == {"local", "openai", "x"}
ModelClasses == {"LocalModel", "OpenAIModel", "UserModel"}
ModelNames == {"gpt2", "m1"}

EmptyKwargs == [k \in {} |-> ""]
KwargsPool == {EmptyKwargs, [base_url |-> "http://localhost:8000"]}

NoInstance == [none |-> TRUE]

\* ModelInterface.__init__(self, model_name, **kwargs) called as
\* super().__init__(), without model_name
SuperInit == "TypeError"

\* model_class(model_name, **kwargs): [raised, error, instance].
\* LocalModel and OpenAIModel start with super().__init__(); UserModel is a
\* class of the caller whose constructor keeps its arguments.
Construct(model_class, model_name, kwargs) ==
  CASE model_class = "LocalModel" ->
         [raised |-> TRUE, error |-> SuperInit, instance |-> NoInstance]
    [] model_class = "OpenAIModel" ->
         [raised |-> TRUE, error |-> SuperInit, instance |-> NoInstance]
    [] model_class = "UserModel" ->
         [raised |-> FALSE, error |-> "",
          instance |-> [class |-> model_class, model_name |-> model_name,
                        kwargs |-> kwargs]]

NoCreate ==
  [status |-> "none", error |-> "", model_type |-> "", model_name |-> "",
   kwargs |-> EmptyKwargs, instance |-> NoInstance, ctorCalls |-> <<>>,
   regCount |-> 0]

\* a registration that keeps the entry a name already has
RegistryStoreFirstWins(reg, model_type, model_class) ==
  [t \in DOMAIN reg \cup {model_type} |->
     IF t \in DOMAIN reg THEN reg[t] ELSE model_class]

\* the assignment _model_registry[model_type] = model_class
RegistryStore(reg, model_type, model_class) ==
  [t \in DOMAIN reg \cup {model_type} |->
     IF t = model_type THEN model_class ELSE reg[t]]

\* create_model dropping the keyword arguments
CreateOutcomeNoKwargs(reg, model_type, model_name, kwargs) ==
  IF model_type \notin DOMAIN reg
  THEN [status |-> "raised", error |-> "ValueError", instance |-> NoInstance,
        ctorCalls |-> <<>>]
  ELSE
    LET model_class == reg[model_type]
        out == Construct(model_class, model_name, EmptyKwargs)
    IN [status |-> IF out.raised THEN "raised" ELSE "returned",
        error |-> out.error, instance |-> out.instance,
        ctorCalls |-> << [class |-> model_class, model_name |-> model_name,
                          kwargs |-> EmptyKwargs] >>]

\* create_model falling back to some registered class for an unknown name
CreateOutcomeFallback(reg, model_type, model_name, kwargs) ==
  IF DOMAIN reg = {}
  THEN [status |-> "raised", error |-> "ValueError", instance |-> NoInstance,
        ctorCalls |-> <<>>]
  ELSE
    LET model_class == IF model_type \in DOMAIN reg THEN reg[model_type]
                       ELSE reg[CHOOSE t \in DOMAIN reg : TRUE]
        out == Construct(model_class, model_name, kwargs)
    IN [status |-> IF out.raised THEN "raised" ELSE "returned",
        error |-> out.error, instance |-> out.instance,
        ctorCalls |-> << [class |-> model_class, model_name |-> model_name,
                          kwargs |-> kwargs] >>]

\* ModelFactory.create_model as a function of the registry
CreateOutcome(reg, model_type, model_name, kwargs) ==
  IF model_type \notin DOMAIN reg
  THEN [status |-> "raised", error |-> "ValueError", instance |-> NoInstance,
        ctorCalls |-> <<>>]
  ELSE
    LET model_class == reg[model_type]
        out == Construct(model_class, model_name, kwargs)
    IN [status |-> IF out.raised THEN "raised" ELSE "returned",
        error |-> out.error, instance |-> out.instance,
        ctorCalls |-> << [class |-> model_class, model_name |-> model_name,
                          kwargs |-> kwargs] >>]

\* create_model taking the entry out of the registry
CreateRegistryPop(reg, model_type) ==
  [t \in DOMAIN reg \ {model_type} |-> reg[t]]

\* what create_model leaves in the registry
CreateRegistry(reg, model_type) == reg

RegisterModel(model_type, model_class) ==
  /\ Len(regLog) < MaxRegs
  /\ registry' = RegistryStore(registry, model_type, model_class)
  /\ regLog' = Append(regLog, [model_type |-> model_type,
                               model_class |-> model_class])
  /\ UNCHANGED <<lifeVars, lastCreate, pipelineVars, modelVars, opsVars>>

CreateModel(model_type, model_name, kwargs) ==
  LET out == CreateOutcome(registry, model_type, model_name, kwargs)
  IN /\ lastCreate' = [status |-> out.status, error |-> out.error,
                       model_type |-> model_type, model_name |-> model_name,
                       kwargs |-> kwargs, instance |-> out.instance,
                       ctorCalls |-> out.ctorCalls,
                       regCount |-> Len(regLog)]
     /\ registry' = CreateRegistry(registry, model_type)
     /\ UNCHANGED <<lifeVars, regLog, pipelineVars, modelVars, opsVars>>

(***************************************************************************)
(* ModelOperator.                                                          *)
(*                                                                         *)
(* modelOp describes the most recent ModelOperator(...) call: its          *)
(* arguments (args), its outcome (status, error), the operator built (op), *)
(* the create_model calls it made (creates), and the most recent           *)
(* op.process call with its outcome (last).                                *)
(***************************************************************************)
Tasks == {"generate", "embeddings", "classify"}

\* f"{task}_result"
TaskResultColumn(task) ==
  CASE task = "generate" -> "generate_result"
    [] task = "embeddings" -> "embeddings_result"
    [] task = "classify" -> "classify_result"

NoOp == [kind |-> "none"]
NoProcess ==
  [status |-> "none", error |-> "", input |-> NoneDF, df |-> NoneDF,
   calls |-> <<>>, results |-> <<>>]
NoModelOp ==
  [status |-> "none", error |-> "", args |-> [task |-> ""], op |-> NoOp,
   creates |-> <<>>, last |-> NoProcess]

\* the record of a create_model call made during construction
CreateCall(args, made) ==
  [model_type |-> args.model_type, model_name |-> args.model_name,
   kwargs |-> args.model_params, status |-> made.status,
   ctorCalls |-> made.ctorCalls]

\* a constructor that creates the backend before it looks at the task
ModelOperatorInitCreatesFirst(reg, args) ==
  LET made == CreateOutcome(reg, args.model_type, args.model_name,
                            args.model_params)
  IN IF made.status = "raised"
     THEN [status |-> "failed", error |-> made.error, op |-> NoOp,
           creates |-> << CreateCall(args, made) >>]
     ELSE IF args.task \notin Tasks
     THEN [status |-> "failed", error |-> "ValueError", op |-> NoOp,
           creates |-> << CreateCall(args, made) >>]
     ELSE [status |-> "constructed", error |-> "",
           op |-> [kind |-> "ModelOperator", task |-> args.task,
                   model_type |-> args.model_type,
                   model_name |-> args.model_name,
                   text_column |-> args.text_column,
                   output_column |->
                     IF args.output_column = NoneStr
                     THEN TaskResultColumn(args.task)
                     ELSE args.output_column,
                   model_params |-> args.model_params,
                   task_params |-> args.task_params,
                   model |-> made.instance],
           creates |-> << CreateCall(args, made) >>]

\* ModelOperator.__init__ as a function of the registry and the arguments
ModelOperatorInit(reg, args) ==
  IF args.task \notin Tasks
  THEN [status |-> "failed", error |-> "ValueError", op |-> NoOp,
        creates |-> <<>>]
  ELSE
    LET made == CreateOutcome(reg, args.model_type, args.model_name,
                              args.model_params)
    IN IF made.status = "raised"
       THEN [status |-> "failed", error |-> made.error, op |-> NoOp,
             creates |-> << CreateCall(args, made) >>]
       ELSE [status |-> "constructed", error |-> "",
             op |-> [kind |-> "ModelOperator", task |-> args.task,
                     model_type |-> args.model_type,
                     model_name |-> args.model_name,
                     text_column |-> args.text_column,
                     output_column |->
                       IF args.output_column = NoneStr
                       THEN TaskResultColumn(args.task)
                       ELSE args.output_column,
                     model_params |-> args.model_params,
                     task_params |-> args.task_params,
                     model |-> made.instance],
             creates |-> << CreateCall(args, made) >>]

\* what the backend held by the operator answers to a capability call: it
\* raises, or returns a list of results
ReplyKinds == {"parallel", "short", "error"}

\* one result for each text, in the order of the texts
ParallelResults(method, texts) ==
  [i \in 1..Len(texts) |-> [by |-> method, of |-> texts[i]]]

BackendReply(method, texts, kind) ==
  CASE kind = "parallel" ->
         [raised |-> FALSE, error |-> "",
          results |-> ParallelResults(method, texts)]
    [] kind = "short" ->
         [raised |-> FALSE, error |-> "",
          results |-> SubSeq(ParallelResults(method, texts), 1,
                             Len(texts) - 1)]
    [] kind = "error" ->
         [raised |-> TRUE, error |-> "BackendError", results |-> <<>>]

\* dataframe.to_pydict()[column]: the values of the column in row order
ColumnList(df, column) == [i \in 1..Len(df.rows) |-> df.rows[i][column]]

\* self.model.<method>(texts, **self.task_params) and the with_column that
\* follows it
CallAndAppend(op, df, method, texts, kind) ==
  LET reply == BackendReply(method, texts, kind)
      call == [method |-> method, inputs |-> texts,
               params |-> op.task_params, model |-> op.model]
  IN IF reply.raised
     THEN [status |-> "raised", error |-> reply.error, df |-> NoneDF,
           calls |-> <<call>>, results |-> <<>>]
     ELSE IF Len(reply.results) # Len(df.rows)
     THEN [status |-> "raised", error |-> "ValueError", df |-> NoneDF,
           calls |-> <<call>>, results |-> reply.results]
     ELSE [status |-> "returned", error |-> "",
           df |-> WithColumn(df, op.output_column, reply.results),
           calls |-> <<call>>, results |-> reply.results]

ProcessRaised(error) ==
  [status |-> "raised", error |-> error, df |-> NoneDF, calls |-> <<>>,
   results |-> <<>>]

\* process calling classify although the task parameters have no labels
ModelOperatorProcessNoLabelCheck(op, df, kind) ==
  IF op.text_column \notin df.cols THEN ProcessRaised("KeyError")
  ELSE
    LET texts == ColumnList(df, op.text_column)
    IN CASE op.task = "generate" ->
              CallAndAppend(op, df, "generate", texts, kind)
         [] op.task = "embeddings" ->
              CallAndAppend(op, df, "embeddings", texts, kind)
         [] op.task = "classify" ->
              IF "labels" \notin DOMAIN op.task_params
              THEN CallAndAppend(op, df, "classify", texts, "error")
              ELSE CallAndAppend(op, df, "classify", texts, kind)
         [] OTHER -> ProcessRaised("ValueError")

\* process sending the embeddings task to generate
ModelOperatorProcessWrongMethod(op, df, kind) ==
  IF op.text_column \notin df.cols THEN ProcessRaised("KeyError")
  ELSE
    LET texts == ColumnList(df, op.text_column)
    IN CASE op.task = "generate" ->
              CallAndAppend(op, df, "generate", texts, kind)
         [] op.task = "embeddings" ->
              CallAndAppend(op, df, "generate", texts, kind)
         [] op.task = "classify" ->
              IF "labels" \notin DOMAIN op.task_params
              THEN ProcessRaised("ValueError")
              ELSE CallAndAppend(op, df, "classify", texts, kind)
         [] OTHER -> ProcessRaised("ValueError")

\* process asking the registry for a backend on every call
ModelOperatorProcessRecreates(op, df, kind) ==
  LET made == CreateOutcome(registry, op.model_type, op.model_name,
                            op.model_params)
      fresh == [op EXCEPT !.model = made.instance]
  IN IF made.status = "raised" THEN ProcessRaised(made.error)
     ELSE IF op.text_column \notin df.cols THEN ProcessRaised("KeyError")
     ELSE
       LET texts == ColumnList(df, op.text_column)
       IN CASE op.task = "generate" ->
                 CallAndAppend(fresh, df, "generate", texts, kind)
            [] op.task = "embeddings" ->
                 CallAndAppend(fresh, df, "embeddings", texts, kind)
            [] op.task = "classify" ->
                 IF "labels" \notin DOMAIN op.task_params
                 THEN ProcessRaised("ValueError")
                 ELSE CallAndAppend(fresh, df, "classify", texts, kind)
            [] OTHER -> ProcessRaised("ValueError")

\* ModelOperator.process
ModelOperatorProcess(op, df, kind) ==
  IF op.text_column \notin df.cols THEN ProcessRaised("KeyError")
  ELSE
    LET texts == ColumnList(df, op.text_column)
    IN CASE op.task = "generate" ->
              CallAndAppend(op, df, "generate", texts, kind)
         [] op.task = "embeddings" ->
              CallAndAppend(op, df, "embeddings", texts, kind)
         [] op.task = "classify" ->
              IF "labels" \notin DOMAIN op.task_params
              THEN ProcessRaised("ValueError")
              ELSE CallAndAppend(op, df, "classify", texts, kind)
         [] OTHER -> ProcessRaised("ValueError")

\* the arguments ModelOperator is constructed with
TaskParamsPool == {EmptyKwargs, [labels |-> <<"pos", "neg">>]}
ModelOperatorArgs ==
  [task : Tasks \cup {"summarize"}, model_type : {"local", "x"},
   model_name : {"m1"}, text_column : {"text"},
   output_column : {NoneStr, "text"}, model_params : KwargsPool,
   task_params : TaskParamsPool]

\* the datasets a ModelOperator processes
InputG ==
  MkDF({"text", "generate_result"},
       << [text |-> "a", generate_result |-> "old"],
          [text |-> "bc", generate_result |-> "older"] >>)
ModelInputs == {InputB, InputG, MkDF({"id"}, << [id |-> 1] >>)}

\* register_model, the history of the registrations not being kept
RegisterBackend(model_type, model_class) ==
  /\ registry' = RegistryStore(registry, model_type, model_class)
  /\ UNCHANGED <<lifeVars, regLog, lastCreate, modelVars, pipelineVars,
                 opsVars>>

ConstructModelOperator(args) ==
  LET out == ModelOperatorInit(registry, args)
  IN /\ modelOp' = [status |-> out.status, error |-> out.error,
                    args |-> args, op |-> out.op, creates |-> out.creates,
                    last |-> NoProcess]
     /\ IF out.creates = <<>>
        THEN UNCHANGED <<registry, lastCreate>>
        ELSE LET made == CreateOutcome(registry, args.model_type,
                                       args.model_name, args.model_params)
             IN /\ lastCreate' =
                     [status |-> made.status, error |-> made.error,
                      model_type |-> args.model_type,
                      model_name |-> args.model_name,
                      kwargs |-> args.model_params,
                      instance |-> made.instance,
                      ctorCalls |-> made.ctorCalls,
                      regCount |-> Len(regLog)]
                /\ registry' = CreateRegistry(registry, args.model_type)
     /\ UNCHANGED <<lifeVars, regLog, lastCall, pipelineVars, opsVars>>

ProcessModelOperator(df, kind) ==
  /\ modelOp.status = "constructed"
  /\ LET out == ModelOperatorProcess(modelOp.op, df, kind)
     IN modelOp' = [modelOp EXCEPT !.last =
                      [status |-> out.status, error |-> out.error,
                       input |-> df, df |-> out.df, calls |-> out.calls,
                       results |-> out.results]]
  /\ UNCHANGED <<lifeVars, factoryVars, lastCall, pipelineVars, opsVars>>

(***************************************************************************)
(* The built-in backends: LocalModel, HuggingFaceModel, OpenAIModel.       *)
(*                                                                         *)
(* lastCall describes the most recent call of a capability method on a     *)
(* backend instance: the method, its arguments, what the model server or   *)
(* the model library answered, the requests sent, and the outcome.  The    *)
(* instance carries the attributes its __init__ assigns.  What lies behind *)
(* a request (the HTTP service, the completion model, the transformers     *)
(* library) is an input of the call.                                       *)
(***************************************************************************)
NoCall == [status |-> "none"]

\* the texts and candidate labels the methods are called with
TextLists == {<<>>, <<"a">>, <<"a", "bc">>, <<"bc", "a", "bc">>}

LabelLists == {<<"pos", "neg">>, <<"pos">>}

\* what a model service computes for one text, per endpoint; scores are
\* carried as one entry per label
GeneratedText(t) == [of |-> t, generated_text |-> <<"gen", t>>]

Embedding(t) == [of |-> t, embedding |-> <<"vec", t>>]

Classification(t, labels) ==
  [of |-> t, labels |-> labels, scores |-> [i \in 1..Len(labels) |-> 1]]

\* A service answers a batched request with a status and a JSON list.  It
\* is a separate program reached over HTTP: it may answer item by item in
\* order, leave an item out, answer in another order, use labels of its
\* own, or answer with an error status.
ServerKinds == {"parallel", "short", "reversed", "foreign", "error"}

ServerList(items, kind) ==
  CASE kind = "short" -> SubSeq(items, 1, Len(items) - 1)
    [] kind = "reversed" -> Reverse(items)
    [] OTHER -> items

\* the labels a classification service or completion model answers with
ServedLabels(labels, kind) ==
  IF kind = "foreign" THEN <<"neutral">> ELSE labels

\* the transformers / sentence-transformers pipelines answer a list of
\* inputs with one entry per input, in order, ranking the candidate labels;
\* loading or running the model may raise
LibraryKinds == {"parallel", "error"}

CallReturned(results, requests) ==
  [status |-> "returned", error |-> "", results |-> results,
   requests |-> requests]

CallRaised(error, requests) ==
  [status |-> "raised", error |-> error, results |-> <<>>,
   requests |-> requests]

LocalInstance ==
  [class |-> "LocalModel", model_name |-> "m",
   base_url |-> "http://localhost:8000"]

\* the request sent again when the first answer is an error status
LocalPostRetries(self, path, inputs, labels, items, kind) ==
  LET request == [url |-> <<self.base_url, path>>, model |-> self.model_name,
                  inputs |-> inputs, labels |-> labels]
  IN IF kind = "error"
     THEN CallRaised("HTTPError", <<request, request>>)
     ELSE CallReturned(ServerList(items, kind), <<request>>)

\* session.post(url, json=payload); raise_for_status(); result[key]
LocalPost(self, path, inputs, labels, items, kind) ==
  LET request == [url |-> <<self.base_url, path>>, model |-> self.model_name,
                  inputs |-> inputs, labels |-> labels]
  IN IF kind = "error"
     THEN CallRaised("HTTPError", <<request>>)
     ELSE CallReturned(ServerList(items, kind), <<request>>)

LocalModelGenerate(self, inputs, kind) ==
  LocalPost(self, "/generate", inputs, <<>>,
            [i \in 1..Len(inputs) |-> GeneratedText(inputs[i])], kind)

LocalModelEmbeddings(self, inputs, kind) ==
  LocalPost(self, "/embeddings", inputs, <<>>,
            [i \in 1..Len(inputs) |-> Embedding(inputs[i])], kind)

LocalModelClassify(self, inputs, labels, kind) ==
  LocalPost(self, "/classify", inputs, labels,
            [i \in 1..Len(inputs) |->
               Classification(inputs[i], ServedLabels(labels, kind))], kind)

HuggingFaceInstance ==
  [class |-> "HuggingFaceModel", model_name |-> "m", device |-> NoneStr]

\* self._<task>_pipeline(inputs, ...), created on first use
HuggingFacePipeline(self, task, inputs, labels, items, kind) ==
  LET request == [pipeline |-> task, model |-> self.model_name,
                  inputs |-> inputs, labels |-> labels]
  IN IF kind = "error"
     THEN CallRaised("RuntimeError", <<request>>)
     ELSE CallReturned(items, <<request>>)

HuggingFaceModelGenerate(self, inputs, kind) ==
  HuggingFacePipeline(self, "text-generation", inputs, <<>>,
                      [i \in 1..Len(inputs) |-> GeneratedText(inputs[i])],
                      kind)

HuggingFaceModelEmbeddings(self, inputs, kind) ==
  HuggingFacePipeline(self, "SentenceTransformer", inputs, <<>>,
                      [i \in 1..Len(inputs) |-> Embedding(inputs[i])], kind)

HuggingFaceModelClassify(self, inputs, labels, kind) ==
  HuggingFacePipeline(self, "zero-shot-classification", inputs, labels,
                      [i \in 1..Len(inputs) |->
                         Classification(inputs[i], labels)], kind)

\* client is the openai client when the openai package is importable, and
\* None (plain HTTP through a requests session) when it is not
OpenAIInstance(client) ==
  [class |-> "OpenAIModel", model_name |-> "m", api_key |-> "k",
   base_url |-> "https://api", client |-> client]

OpenAIRequest(self, endpoint, content) ==
  [url |-> <<self.base_url, endpoint>>, model |-> self.model_name,
   via |-> IF self.client THEN "client" ELSE "session",
   content |-> content]

\* one request per input text; the first failing request ends the call
OpenAIPerInput(self, endpoint, contents, items, kind) ==
  IF kind = "error" /\ Len(contents) > 0
  THEN CallRaised("APIError", <<OpenAIRequest(self, endpoint, contents[1])>>)
  ELSE CallReturned(items,
                    [i \in 1..Len(contents) |->
                       OpenAIRequest(self, endpoint, contents[i])])

OpenAIModelGenerate(self, inputs, kind) ==
  OpenAIPerInput(self, "/v1/chat/completions", inputs,
                 [i \in 1..Len(inputs) |-> GeneratedText(inputs[i])], kind)

\* one request for the whole list; one result per entry of response.data
OpenAIModelEmbeddings(self, inputs, kind) ==
  LET request == OpenAIRequest(self, "/v1/embeddings", inputs)
      data == ServerList([i \in 1..Len(inputs) |-> Embedding(inputs[i])],
                         kind)
  IN IF kind = "error"
     THEN CallRaised("APIError", <<request>>)
     ELSE CallReturned(data, <<request>>)

\* the text the completion model writes after the prompt: one of the
\* labels named in the prompt, or words of its own
CompletionText(labels, kind) ==
  IF kind = "foreign" \/ labels = <<>> THEN "neutral" ELSE labels[1]

OpenAIModelClassify(self, inputs, labels, kind) ==
  OpenAIPerInput(self, "/v1/completions",
                 [i \in 1..Len(inputs) |-> <<labels, inputs[i]>>],
                 [i \in 1..Len(inputs) |->
                    [of |-> inputs[i],
                     labels |-> <<CompletionText(labels, kind)>>,
                     scores |-> <<1>>]],
                 kind)

\* the record of a call: arguments, environment, outcome
CallRecord(self, method, inputs, labels, kind, out) ==
  [status |-> out.status, error |-> out.error, self |-> self,
   method |-> method, inputs |-> inputs, labels |-> labels, reply |-> kind,
   results |-> out.results, requests |-> out.requests]

LocalGenerate(inputs, kind) ==
  /\ lastCall' =
       CallRecord(LocalInstance, "generate", inputs, <<>>, kind,
                  LocalModelGenerate(LocalInstance, inputs, kind))
  /\ UNCHANGED <<lifeVars, factoryVars, modelOp, pipelineVars, opsVars>>

LocalEmbeddings(inputs, kind) ==
  /\ lastCall' =
       CallRecord(LocalInstance, "embeddings", inputs, <<>>, kind,
                  LocalModelEmbeddings(LocalInstance, inputs, kind))
  /\ UNCHANGED <<lifeVars, factoryVars, modelOp, pipelineVars, opsVars>>

LocalClassify(inputs, labels, kind) ==
  /\ lastCall' =
       CallRecord(LocalInstance, "classify", inputs, labels, kind,
                  LocalModelClassify(LocalInstance, inputs, labels, kind))
  /\ UNCHANGED <<lifeVars, factoryVars, modelOp, pipelineVars, opsVars>>

HuggingFaceGenerate(inputs, kind) ==
  /\ lastCall' =
       CallRecord(HuggingFaceInstance, "generate", inputs, <<>>, kind,
                  HuggingFaceModelGenerate(HuggingFaceInstance, inputs, kind))
  /\ UNCHANGED <<lifeVars, factoryVars, modelOp, pipelineVars, opsVars>>

HuggingFaceEmbeddings(inputs, kind) ==
  /\ lastCall' =
       CallRecord(HuggingFaceInstance, "embeddings", inputs, <<>>, kind,
                  HuggingFaceModelEmbeddings(HuggingFaceInstance, inputs, kind))
  /\ UNCHANGED <<lifeVars, factoryVars, modelOp, pipelineVars, opsVars>>

HuggingFaceClassify(inputs, labels, kind) ==
  /\ lastCall' =
       CallRecord(HuggingFaceInstance, "classify", inputs, labels, kind,
                  HuggingFaceModelClassify(HuggingFaceInstance, inputs,
                                           labels, kind))
  /\ UNCHANGED <<lifeVars, factoryVars, modelOp, pipelineVars, opsVars>>

OpenAIGenerate(client, inputs, kind) ==
  /\ lastCall' =
       CallRecord(OpenAIInstance(client), "generate", inputs, <<>>, kind,
                  OpenAIModelGenerate(OpenAIInstance(client), inputs, kind))
  /\ UNCHANGED <<lifeVars, factoryVars, modelOp, pipelineVars, opsVars>>

OpenAIEmbeddings(client, inputs, kind) ==
  /\ lastCall' =
       CallRecord(OpenAIInstance(client), "embeddings", inputs, <<>>, kind,
                  OpenAIModelEmbeddings(OpenAIInstance(client), inputs, kind))
  /\ UNCHANGED <<lifeVars, factoryVars, modelOp, pipelineVars, opsVars>>

OpenAIClassify(client, inputs, labels, kind) ==
  /\ lastCall' =
       CallRecord(OpenAIInstance(client), "classify", inputs, labels, kind,
                  OpenAIModelClassify(OpenAIInstance(client), inputs,
                                      labels, kind))
  /\ UNCHANGED <<lifeVars, factoryVars, modelOp, pipelineVars, opsVars>>

(***************************************************************************)
(* The resources of a backend instance and close().                        *)
(*                                                                         *)
(* backend is one backend instance, described by what it holds: its HTTP   *)
(* session and API client ("open", "closed", or "absent" when the instance *)
(* has none), its tokenizer and the set of task pipelines it has loaded.   *)
(* lastClose describes the most recent close() call on it.                 *)
(***************************************************************************)
NoBackend ==
  [class |-> "none", session |-> "absent", client |-> "absent",
   tokenizer |-> "absent", pipelines |-> {}]

NoClose == [status |-> "none"]

\* LocalModel.close: self.session.close()
LocalModelClose(self) == [self EXCEPT !.session = "closed"]

\* OpenAIModel.close: if hasattr(self, "session"): self.session.close()
OpenAIModelClose(self) ==
  IF self.session # "absent" THEN [self EXCEPT !.session = "closed"]
  ELSE self

\* HuggingFaceModel.close: the three pipelines and the tokenizer are set to
\* None
HuggingFaceModelClose(self) ==
  [self EXCEPT !.pipelines = {}, !.tokenizer = "released"]

\* dynamic dispatch of model.close()
ModelClose(self) ==
  CASE self.class = "LocalModel" -> LocalModelClose(self)
    [] self.class = "OpenAIModel" -> OpenAIModelClose(self)
    [] self.class = "HuggingFaceModel" -> HuggingFaceModelClose(self)

\* LocalModel.__init__: self.session = requests.Session()
NewLocalModel ==
  /\ backend' = [class |-> "LocalModel", session |-> "open",
                 client |-> "absent", tokenizer |-> "absent",
                 pipelines |-> {}]
  /\ lastClose' = NoClose
  /\ UNCHANGED <<pipelineVars, factoryVars, modelVars, opsVars>>

\* OpenAIModel.__init__: the openai client when the package is importable,
\* else client None and a requests session
NewOpenAIModel(openai_available) ==
  /\ backend' = [class |-> "OpenAIModel",
                 session |-> IF openai_available THEN "absent" ELSE "open",
                 client |-> IF openai_available THEN "open" ELSE "absent",
                 tokenizer |-> "absent", pipelines |-> {}]
  /\ lastClose' = NoClose
  /\ UNCHANGED <<pipelineVars, factoryVars, modelVars, opsVars>>

\* HuggingFaceModel.__init__: the tokenizer is loaded, the pipelines are None
NewHuggingFaceModel ==
  /\ backend' = [class |-> "HuggingFaceModel", session |-> "absent",
                 client |-> "absent", tokenizer |-> "loaded",
                 pipelines |-> {}]
  /\ lastClose' = NoClose
  /\ UNCHANGED <<pipelineVars, factoryVars, modelVars, opsVars>>

\* a generate, embeddings or classify call on a HuggingFaceModel, as far as
\* the resources it holds go: the first call of a task creates its pipeline
HuggingFaceUse(task) ==
  /\ backend.class = "HuggingFaceModel"
  /\ backend' = [backend EXCEPT !.pipelines = backend.pipelines \cup {task}]
  /\ UNCHANGED <<lastClose, pipelineVars, factoryVars, modelVars, opsVars>>

\* close(); again tells that the instance was last touched by a close()
Close ==
  /\ backend.class # "none"
  /\ backend' = ModelClose(backend)
  /\ lastClose' =
       [status |-> "returned", before |-> backend,
        after |-> ModelClose(backend),
        again |-> lastClose.status # "none" /\ lastClose.after = backend]
  /\ UNCHANGED <<pipelineVars, factoryVars, modelVars, opsVars>>

(***************************************************************************)
(* TextDeduper, and the application of single operators to a dataset.      *)
(*                                                                         *)
(* ds is the dataset at hand; lastApply describes the most recent          *)
(* operator.process(ds) call: the operator, its input, its outcome, and    *)
(* the same of the call before it (prev).                                  *)
(***************************************************************************)
TextDeduper(text_column, keep) ==
  [kind |-> "TextDeduper", text_column |-> text_column, keep |-> keep]

Range(s) == {s[i] : i \in 1..Len(s)}

\* the values of column col in df
ColumnValues(df, col) == {df.rows[i][col] : i \in 1..Len(df.rows)}

\* the ways to keep one row for each value of column col: the engine does
\* not say which of the rows sharing a value survives
Picks(df, col) ==
  {p \in [ColumnValues(df, col) -> 1..Len(df.rows)] :
     \A v \in ColumnValues(df, col) : df.rows[p[v]][col] = v}

\* the rows of df at the positions in keep, in their order in df
RECURSIVE RowsAt(_, _, _)
RowsAt(rows, keep, i) ==
  IF i > Len(rows) THEN <<>>
  ELSE (IF i \in keep THEN <<rows[i]>> ELSE <<>>) \o RowsAt(rows, keep, i + 1)

\* drop_duplicates leaving rows that share a value when they are not
\* neighbours
DropDuplicatesAdjacent(df, col, pick) ==
  MkDF(df.cols,
       RowsAt(df.rows,
              {i \in 1..Len(df.rows) :
                 i = 1 \/ df.rows[i][col] # df.rows[i - 1][col]}, 1))

\* dataframe.drop_duplicates(col): one row is left for each value of col
DropDuplicates(df, col, pick) ==
  MkDF(df.cols,
       RowsAt(df.rows, {pick[v] : v \in ColumnValues(df, col)}, 1))

\* TextDeduper.process: self.keep is not read
TextDeduperProcess(op, df, pick) ==
  IF df = NoneDF THEN Raised("AttributeError")
  ELSE IF op.text_column \notin df.cols THEN Raised("ColumnNotFound")
  ELSE Returned(DropDuplicates(df, op.text_column, pick))

\* the datasets the operators are applied to
OpsA ==
  MkDF({"id", "text"},
       << [id |-> 1, text |-> "ab"],
          [id |-> 2, text |-> "abcdefghij"],
          [id |-> 3, text |-> "ab"],
          [id |-> 4, text |-> "abcde"] >>)
OpsB ==
  MkDF({"text", "len"},
       << [text |-> "ab", len |-> 2], [text |-> "abcdefghij", len |-> 10] >>)
OpsC ==
  MkDF({"id", "text"},
       << [id |-> 1, text |-> "abcde"],
          [id |-> 2, text |-> "abcdefg"],
          [id |-> 3, text |-> "abcde"],
          [id |-> 4, text |-> "abcde"] >>)
OpsD == MkDF({"id"}, << [id |-> 1], [id |-> 2] >>)
OpsInputs == {OpsA, OpsB, OpsC, OpsD}

\* the configurations of the operators applied
LengthFilters ==
  { TextLengthFilter("text", 0, NoneInt),
    TextLengthFilter("text", 5, NoneInt),
    TextLengthFilter("text", 0, 5),
    TextLengthFilter("text", 5, 10),
    TextLengthFilter("text", 10, 5) }
Dedupers == {TextDeduper("text", keep) : keep \in {"first", "last", "False"}}

NoApplied == [op |-> [kind |-> "none"], input |-> NoneDF, outdf |-> NoneDF]
NoApply ==
  [op |-> [kind |-> "none"], input |-> NoneDF, out |-> Raised(""),
   prev |-> NoApplied]

\* the record of a process call made now
Applied(op, out) ==
  [op |-> op, input |-> ds, out |-> out,
   prev |-> [op |-> lastApply.op, input |-> lastApply.input,
             outdf |-> lastApply.out.df]]

LoadDataset(df) ==
  /\ ds' = df
  /\ UNCHANGED <<lifeVars, lastApply, pipelineVars, factoryVars, modelVars>>

ApplyTextLengthFilter(op) ==
  LET out == TextLengthFilterProcess(op, ds)
  IN /\ lastApply' = Applied(op, out)
     /\ ds' = IF out.raised THEN ds ELSE out.df
     /\ UNCHANGED <<lifeVars, pipelineVars, factoryVars, modelVars>>

ApplyTextDeduper(op) ==
  \E pick \in IF op.text_column \in ds.cols THEN Picks(ds, op.text_column)
              ELSE {<<>>} :
    LET out == TextDeduperProcess(op, ds, pick)
    IN /\ lastApply' = Applied(op, out)
       /\ ds' = IF out.raised THEN ds ELSE out.df
       /\ UNCHANGED <<lifeVars, pipelineVars, factoryVars, modelVars>>

(***************************************************************************)
(* TextQualityEvaluator.                                                   *)
(*                                                                         *)
(* A text scored by the evaluator is a sequence of characters, so that its *)
(* length, its punctuation marks and its words can be counted; a null text *)
(* is NoneText.  Scores are counted in thousandths: the score 0.15 is 150. *)
(***************************************************************************)
NoneText == <<NoneStr>>

\* the characters of ".!?，。！？": the four full-width marks are named by
\* their code points
Punctuation == {".", "!", "?", "U+FF0C", "U+3002", "U+FF01", "U+FF1F"}

\* characters str.split() separates words at
Whitespace == {" ", "\t", "\n"}

Min(a, b) == IF a <= b THEN a ELSE b

\* sum(1 for c in text if c in ".!?，。！？")
PunctuationCount(text) ==
  Cardinality({i \in 1..Len(text) : text[i] \in Punctuation})

\* len(text.split()): the maximal runs of characters that are not
\* whitespace
WordCount(text) ==
  Cardinality({i \in 1..Len(text) :
                 /\ text[i] \notin Whitespace
                 /\ i = 1 \/ text[i - 1] \in Whitespace})

\* the components without the cap on the length component
QualityPartsUncapped(text) ==
  [length_score |-> Len(text),
   punctuation_score |-> Min(50 * PunctuationCount(text), 300),
   word_score |-> Min(10 * WordCount(text), 200)]

\* the components with the word component counted per 50 words
QualityPartsPerFiftyWords(text) ==
  [length_score |-> Min(Len(text), 500),
   punctuation_score |-> Min(50 * PunctuationCount(text), 300),
   word_score |-> Min(20 * WordCount(text), 200)]

\* the three components of evaluate_quality, in thousandths:
\* min(len(text) / 1000, 0.5), min(punctuation_count / 20, 0.3) and
\* min(word_count / 100, 0.2)
QualityParts(text) ==
  [length_score |-> Min(Len(text), 500),
   punctuation_score |-> Min(50 * PunctuationCount(text), 300),
   word_score |-> Min(10 * WordCount(text), 200)]

\* evaluate_quality(text)
EvaluateQuality(text) ==
  IF text = NoneText \/ text = <<>> THEN 0
  ELSE LET parts == QualityParts(text)
       IN parts.length_score + parts.punctuation_score + parts.word_score

TextQualityEvaluator(text_column, score_column) ==
  [kind |-> "TextQualityEvaluator", text_column |-> text_column,
   score_column |-> score_column]

\* TextQualityEvaluator.process
TextQualityEvaluatorProcess(op, df) ==
  IF df = NoneDF THEN Raised("AttributeError")
  ELSE IF op.text_column \notin df.cols THEN Raised("ColumnNotFound")
  ELSE Returned(WithColumn(df, op.score_column,
                           [i \in 1..Len(df.rows) |->
                              EvaluateQuality(df.rows[i][op.text_column])]))

\* unit repeated n times
Repeat(unit, n) ==
  [i \in 1..(n * Len(unit)) |-> unit[((i - 1) % Len(unit)) + 1]]

\* "Great! Great! Great?"
GreatText ==
  <<"G", "r", "e", "a", "t", "!", " ", "G", "r", "e", "a", "t", "!", " ",
    "G", "r", "e", "a", "t", "?">>

\* texts to score; the last text of TextsA is "a. " 334 times: 1002
\* characters, 334 marks, 334 words; the first body of TextsB is "word" and
\* a newline 100 times, closed by a full-width full stop
TextsA ==
  MkDF({"id", "text"},
       << [id |-> 1, text |-> GreatText],
          [id |-> 2, text |-> <<>>],
          [id |-> 3, text |-> NoneText],
          [id |-> 4, text |-> GreatText],
          [id |-> 5, text |-> Repeat(<<"a", ".", " ">>, 334)] >>)
TextsB ==
  MkDF({"text", "body", "text_quality_score"},
       << [text |-> <<"H", "i", ".">>,
           body |-> Repeat(<<"w", "o", "r", "d", "\n">>, 100) \o <<"U+3002">>,
           text_quality_score |-> 999],
          [text |-> <<" ">>, body |-> <<"?", "!", "\t", "x">>,
           text_quality_score |-> 0] >>)
\* a process call of the evaluator; parts keeps, for each row, the
\* components evaluate_quality computed
ApplyTextQualityEvaluator(op) ==
  LET out == TextQualityEvaluatorProcess(op, ds)
      parts == IF out.raised THEN <<>>
               ELSE [i \in 1..Len(ds.rows) |->
                       QualityParts(ds.rows[i][op.text_column])]
  IN /\ lastApply' = Applied(op, [raised |-> out.raised, error |-> out.error,
                                  df |-> out.df, parts |-> parts])
     /\ ds' = IF out.raised THEN ds ELSE out.df
     /\ UNCHANGED <<lifeVars, pipelineVars, factoryVars, modelVars>>

(***************************************************************************)
(* Specifications.                                                         *)
(***************************************************************************)
Init ==
  /\ operators = <<>>
  /\ dataframe = NoneDF
  /\ lastRun = NoRun
  /\ registry = [t \in {} |-> ""]
  /\ regLog = <<>>
  /\ lastCreate = NoCreate
  /\ modelOp = NoModelOp
  /\ lastCall = NoCall
  /\ ds = OpsA
  /\ lastApply = NoApply
  /\ backend = NoBackend
  /\ lastClose = NoClose

\* the evaluator starts on a dataset of texts to score
EvaluatorInit ==
  /\ operators = <<>>
  /\ dataframe = NoneDF
  /\ lastRun = NoRun
  /\ registry = [t \in {} |-> ""]
  /\ regLog = <<>>
  /\ lastCreate = NoCreate
  /\ modelOp = NoModelOp
  /\ lastCall = NoCall
  /\ ds = TextsA
  /\ lastApply = NoApply
  /\ backend = NoBackend
  /\ lastClose = NoClose

Next ==
  \/ \E operator \in OperatorPool : AddOperator(operator)
  \/ \E df \in Inputs \cup {NoneDF} : SetInput(df)
  \/ Run

Spec == Init /\ [][Next]_vars

FactoryNext ==
  \/ \E t \in BackendNames, c \in ModelClasses : RegisterModel(t, c)
  \/ \E t \in BackendNames, n \in ModelNames, k \in KwargsPool :
       CreateModel(t, n, k)

FactorySpec == Init /\ [][FactoryNext]_vars

FiltersNext ==
  \/ \E operator \in FilterPool : AddOperator(operator)
  \/ \E df \in {MediaA, MediaB} : SetInput(df)
  \/ Run

FiltersSpec == Init /\ [][FiltersNext]_vars

WritersNext ==
  \/ \E operator \in WriterPool : AddOperator(operator)
  \/ \E df \in Inputs : SetInput(df)
  \/ Run

WritersSpec == Init /\ [][WritersNext]_vars

LifecycleNext ==
  \/ NewLocalModel
  \/ \E openai_available \in BOOLEAN : NewOpenAIModel(openai_available)
  \/ NewHuggingFaceModel
  \/ \E task \in Tasks : HuggingFaceUse(task)
  \/ Close

LifecycleSpec == Init /\ [][LifecycleNext]_vars

EvaluatorNext ==
  \/ \E df \in {TextsA, TextsB, MkDF({"id"}, << [id |-> 1] >>)} :
       LoadDataset(df)
  \/ \E text_column \in {"text", "body"},
        score_column \in {"text_quality_score", "score"} :
       ApplyTextQualityEvaluator(
         TextQualityEvaluator(text_column, score_column))

EvaluatorSpec == EvaluatorInit /\ [][EvaluatorNext]_vars

OpsNext ==
  \/ \E df \in OpsInputs : LoadDataset(df)
  \/ \E op \in LengthFilters : ApplyTextLengthFilter(op)
  \/ \E op \in Dedupers : ApplyTextDeduper(op)

OpsSpec == Init /\ [][OpsNext]_vars

OperatorNext ==
  \/ \E t \in {"local", "x"}, c \in {"LocalModel", "UserModel"} :
       RegisterBackend(t, c)
  \/ \E args \in ModelOperatorArgs : ConstructModelOperator(args)
  \/ \E df \in ModelInputs, kind \in ReplyKinds : ProcessModelOperator(df, kind)

OperatorSpec == Init /\ [][OperatorNext]_vars

BackendNext ==
  \/ \E inputs \in TextLists, kind \in ServerKinds :
       LocalGenerate(inputs, kind)
  \/ \E inputs \in TextLists, kind \in ServerKinds :
       LocalEmbeddings(inputs, kind)
  \/ \E inputs \in TextLists, labels \in LabelLists, kind \in ServerKinds :
       LocalClassify(inputs, labels, kind)
  \/ \E inputs \in TextLists, kind \in LibraryKinds :
       HuggingFaceGenerate(inputs, kind)
  \/ \E inputs \in TextLists, kind \in LibraryKinds :
       HuggingFaceEmbeddings(inputs, kind)
  \/ \E inputs \in TextLists, labels \in LabelLists, kind \in LibraryKinds :
       HuggingFaceClassify(inputs, labels, kind)
  \/ \E client \in BOOLEAN, inputs \in TextLists, kind \in ServerKinds :
       OpenAIGenerate(client, inputs, kind)
  \/ \E client \in BOOLEAN, inputs \in TextLists, kind \in ServerKinds :
       OpenAIEmbeddings(client, inputs, kind)
  \/ \E client \in BOOLEAN, inputs \in TextLists, labels \in LabelLists,
        kind \in ServerKinds :
       OpenAIClassify(client, inputs, labels, kind)

BackendSpec == Init /\ [][BackendNext]_vars

(***************************************************************************)
(* Reference definitions used by the properties.                           *)
(***************************************************************************)
\* on.process(...o1.process(d)), as a nested application: [raised, error, df]
RECURSIVE Chain(_, _)
Chain(ops, d) ==
  IF ops = <<>> THEN Returned(d)
  ELSE LET before == Chain(SubSeq(ops, 1, Len(ops) - 1), d)
       IN IF before.raised THEN before
          ELSE Process(ops[Len(ops)], before.df)

\* the position of the first operator of ops whose process raises on the way
FirstRaising(ops, d) ==
  CHOOSE k \in 1..Len(ops) :
    /\ Chain(SubSeq(ops, 1, k), d).raised
    /\ ~Chain(SubSeq(ops, 1, k - 1), d).raised

\* the calls log holds positions 1..k of ops, in order, each fed the output
\* of the one before, the first fed d
CallsInOrder(calls, ops, d, k) ==
  /\ Len(calls) = k
  /\ \A i \in 1..k :
       /\ calls[i].pos = i
       /\ calls[i].op = ops[i]
       /\ calls[i].input = Chain(SubSeq(ops, 1, i - 1), d).df

\* x is among the first n registrations of log
RegisteredIn(log, n, x) == \E i \in 1..n : log[i].model_type = x

\* the class of the most recent of the first n registrations of log for x
LastClass(log, n, x) ==
  LET i == CHOOSE j \in 1..n :
             /\ log[j].model_type = x
             /\ \A m \in (j + 1)..n : log[m].model_type # x
  IN log[i].model_class

(***************************************************************************)
(* Properties of DataPipeline, under Spec.                                 *)
(***************************************************************************)
\* C1: a run that returns has invoked every operator exactly once per list
\* position, in add_operator order, each on the previous operator's output,
\* and returns on.process(...o1.process(D)); with no operator it returns D.
C1_RunIsComposition ==
  lastRun.status = "returned" =>
    LET ops == lastRun.ops
        ref == Chain(ops, lastRun.input)
    IN /\ CallsInOrder(lastRun.calls, ops, lastRun.input, Len(ops))
       /\ ~ref.raised
       /\ lastRun.result = ref.df
       /\ ops = <<>> => lastRun.result = lastRun.input

C1_Witness ==
  /\ lastRun.status = "returned"
  /\ Len(lastRun.ops) = 3
  /\ lastRun.ops[1] = lastRun.ops[3]
  /\ lastRun.ops[1] # lastRun.ops[2]
  /\ lastRun.result # lastRun.input

C3_FailFast ==
  (/\ lastRun.status # "none"
   /\ lastRun.input # NoneDF
   /\ Chain(lastRun.ops, lastRun.input).raised) =>
    LET k == FirstRaising(lastRun.ops, lastRun.input)
    IN /\ lastRun.status = "raised"
       /\ lastRun.error = Chain(SubSeq(lastRun.ops, 1, k), lastRun.input).error
       /\ CallsInOrder(lastRun.calls, lastRun.ops, lastRun.input, k)
       /\ lastRun.result = NoneDF

C3_Witness ==
  /\ lastRun.status = "raised"
  /\ lastRun.input # NoneDF
  /\ Len(lastRun.ops) = 3
  /\ Len(lastRun.calls) = 2

\* C4: run changes neither the attached dataset nor the operator list, and a
\* run that follows a returned run with the same operators and attached
\* dataset starts from that dataset again and returns the same result.
C4_RerunFromAttached ==
  [][Run =>
       /\ operators' = operators
       /\ dataframe' = dataframe
       /\ (/\ lastRun.status = "returned"
           /\ lastRun.ops = operators
           /\ lastRun.input = dataframe) =>
            /\ lastRun'.status = "returned"
            /\ lastRun'.result = lastRun.result
            /\ lastRun'.calls = lastRun.calls
            /\ lastRun'.input = lastRun.input]_vars

C4_Witness ==
  /\ lastRun.status = "returned"
  /\ lastRun.prev.status = "returned"
  /\ lastRun.prev.input = lastRun.input
  /\ lastRun.prev.nops = Len(lastRun.ops)
  /\ Len(lastRun.ops) >= 2
  /\ lastRun.result # lastRun.input
  /\ dataframe = lastRun.input

\* C5: a run that follows an earlier run, returned or raised, executes the
\* whole chain from the first operator on the dataset attached now.
C5_ReusableAfterRun ==
  [][(Run /\ lastRun.status # "none" /\ dataframe # NoneDF) =>
       LET ref == Chain(operators, dataframe)
           k == IF ref.raised THEN FirstRaising(operators, dataframe)
                ELSE Len(operators)
       IN /\ CallsInOrder(lastRun'.calls, operators, dataframe, k)
          /\ lastRun'.status = IF ref.raised THEN "raised" ELSE "returned"
          /\ lastRun'.error = ref.error
          /\ lastRun'.result = ref.df]_vars

C5_Witness ==
  /\ lastRun.prev.status = "raised"
  /\ lastRun.prev.input # NoneDF
  /\ lastRun.prev.input # lastRun.input
  /\ lastRun.prev.nops = Len(lastRun.ops)
  /\ lastRun.status = "returned"
  /\ Len(lastRun.calls) >= 2

\* C6: a pipeline whose first operator is a reader of an existing file, run
\* with no attached dataset, returns the remaining operators applied in order
\* to what the reader loaded.
C6_ReaderFirstRuns ==
  (/\ lastRun.status # "none"
   /\ lastRun.input = NoneDF
   /\ lastRun.ops # <<>>
   /\ lastRun.ops[1].kind = "CSVReader"
   /\ lastRun.ops[1].file_path \in ExistingFiles
   /\ ~Chain(Tail(lastRun.ops), FileContent(lastRun.ops[1].file_path)).raised)
  =>
    /\ lastRun.status = "returned"
    /\ lastRun.result =
         Chain(Tail(lastRun.ops), FileContent(lastRun.ops[1].file_path)).df

(***************************************************************************)
(* Properties of ModelFactory, under FactorySpec.                          *)
(***************************************************************************)
\* C7: create_model(x, name, **kwargs) made right after register_model(x, C)
\* invokes C exactly once, with (name, **kwargs), and its outcome is C's:
\* the instance C produced is the one returned.
C7_CreateUsesRegistered ==
  (/\ lastCreate.status # "none"
   /\ lastCreate.regCount >= 1
   /\ regLog[lastCreate.regCount].model_type = lastCreate.model_type) =>
    LET C == regLog[lastCreate.regCount].model_class
        made == Construct(C, lastCreate.model_name, lastCreate.kwargs)
    IN /\ lastCreate.ctorCalls =
            << [class |-> C, model_name |-> lastCreate.model_name,
                kwargs |-> lastCreate.kwargs] >>
       /\ IF made.raised
          THEN lastCreate.status = "raised" /\ lastCreate.error = made.error
          ELSE /\ lastCreate.status = "returned"
               /\ lastCreate.instance = made.instance
               /\ lastCreate.instance.class = C
               /\ lastCreate.instance.model_name = lastCreate.model_name
               /\ lastCreate.instance.kwargs = lastCreate.kwargs

C7_Witness ==
  /\ lastCreate.status = "returned"
  /\ lastCreate.regCount >= 1
  /\ regLog[lastCreate.regCount].model_type = lastCreate.model_type
  /\ lastCreate.kwargs # EmptyKwargs
  /\ lastCreate.instance.kwargs = lastCreate.kwargs

\* C8: create_model with a name never registered raises ValueError, invokes
\* no constructor and leaves the registry as it was.
C8_UnknownBackend ==
  /\ []((/\ lastCreate.status # "none"
         /\ ~RegisteredIn(regLog, lastCreate.regCount, lastCreate.model_type))
        => /\ lastCreate.status = "raised"
           /\ lastCreate.error = "ValueError"
           /\ lastCreate.ctorCalls = <<>>
           /\ lastCreate.instance = NoInstance)
  /\ [][(/\ lastCreate' # lastCreate
         /\ ~RegisteredIn(regLog', lastCreate'.regCount,
                          lastCreate'.model_type))
        => registry' = registry]_vars

C8_Witness ==
  /\ lastCreate.status = "raised"
  /\ lastCreate.error = "ValueError"
  /\ lastCreate.regCount >= 1
  /\ ~RegisteredIn(regLog, lastCreate.regCount, lastCreate.model_type)
  /\ registry # [t \in {} |-> ""]

\* C9: create_model(x, ...) uses the class of the most recent
\* register_model(x, .); a registration, first or repeated, always takes
\* effect and leaves the entries of the other names as they were.
C9_LastRegistrationWins ==
  /\ []((/\ lastCreate.status # "none"
         /\ RegisteredIn(regLog, lastCreate.regCount, lastCreate.model_type))
        => /\ Len(lastCreate.ctorCalls) = 1
           /\ lastCreate.ctorCalls[1].class =
                LastClass(regLog, lastCreate.regCount, lastCreate.model_type))
  /\ [][Len(regLog') = Len(regLog) + 1 =>
          LET e == regLog'[Len(regLog')]
          IN /\ DOMAIN registry' = DOMAIN registry \cup {e.model_type}
             /\ registry'[e.model_type] = e.model_class
             /\ \A y \in DOMAIN registry \ {e.model_type} :
                  registry'[y] = registry[y]]_vars

C9_Witness ==
  /\ lastCreate.status # "none"
  /\ \E i, j \in 1..lastCreate.regCount :
       /\ i < j
       /\ regLog[i].model_type = lastCreate.model_type
       /\ regLog[j].model_type = lastCreate.model_type
       /\ regLog[i].model_class # regLog[j].model_class
       /\ lastCreate.ctorCalls = << [class |-> regLog[j].model_class,
                                     model_name |-> lastCreate.model_name,
                                     kwargs |-> lastCreate.kwargs] >>
  /\ \E i \in 1..lastCreate.regCount :
       regLog[i].model_type # lastCreate.model_type

\* C10: the set of registered names never shrinks over register_model and
\* create_model calls, and a name once registered is looked up successfully
\* by every later create_model.
C10_RegistryNeverShrinks ==
  /\ [][DOMAIN registry \subseteq DOMAIN registry']_vars
  /\ [](\A i \in 1..Len(regLog) : regLog[i].model_type \in DOMAIN registry)
  /\ []((/\ lastCreate.status # "none"
         /\ RegisteredIn(regLog, lastCreate.regCount, lastCreate.model_type))
        => lastCreate.ctorCalls # <<>>)

C10_Witness ==
  /\ lastCreate.status = "raised"
  /\ lastCreate.regCount >= 2
  /\ Len(regLog) > lastCreate.regCount
  /\ Cardinality(DOMAIN registry) >= 2
  /\ Cardinality({regLog[i].model_type : i \in 1..Len(regLog)})
       = Cardinality(DOMAIN registry)

\* C11: with "local" registered as LocalModel, as the models package does
\* when it is loaded, create_model("local", name, **kwargs) returns a
\* LocalModel instance holding the model name and the keyword arguments.
C11_LocalBackendCreates ==
  (/\ lastCreate.status # "none"
   /\ lastCreate.model_type = "local"
   /\ RegisteredIn(regLog, lastCreate.regCount, "local")
   /\ LastClass(regLog, lastCreate.regCount, "local") = "LocalModel") =>
    /\ lastCreate.status = "returned"
    /\ lastCreate.instance.class = "LocalModel"
    /\ lastCreate.instance.model_name = lastCreate.model_name
    /\ lastCreate.instance.kwargs = lastCreate.kwargs

(***************************************************************************)
(* Properties of ModelOperator, under OperatorSpec.                        *)
(***************************************************************************)
\* C12: process of an operator with task "classify" whose task parameters
\* have no labels raises before any backend method is called and returns no
\* dataset, so that no output column is added.
C12_ClassifyNeedsLabels ==
  (/\ modelOp.last.status # "none"
   /\ modelOp.op.task = "classify"
   /\ "labels" \notin DOMAIN modelOp.op.task_params) =>
    /\ modelOp.last.status = "raised"
    /\ modelOp.last.calls = <<>>
    /\ modelOp.last.df = NoneDF
    /\ modelOp.op.text_column \in modelOp.last.input.cols =>
         modelOp.last.error = "ValueError"

C12_Witness ==
  /\ modelOp.last.status = "raised"
  /\ modelOp.last.error = "ValueError"
  /\ modelOp.op.task = "classify"
  /\ "labels" \notin DOMAIN modelOp.op.task_params
  /\ modelOp.op.text_column \in modelOp.last.input.cols
  /\ modelOp.last.calls = <<>>

\* C13: constructing a ModelOperator with a task other than generate,
\* embeddings and classify fails with ValueError, and that construction makes
\* no create_model call, so that no backend instance is created for it.
C13_UnsupportedTask ==
  (/\ modelOp.status # "none"
   /\ modelOp.args.task \notin {"generate", "embeddings", "classify"}) =>
    /\ modelOp.status = "failed"
    /\ modelOp.error = "ValueError"
    /\ modelOp.op = NoOp
    /\ modelOp.creates = <<>>

C13_Witness ==
  /\ modelOp.status = "failed"
  /\ modelOp.args.task = "summarize"
  /\ modelOp.args.model_type \in DOMAIN registry
  /\ registry[modelOp.args.model_type] = "UserModel"
  /\ modelOp.creates = <<>>

\* C14: process makes at most one backend call; when the input has the text
\* column (and the labels are there for classify) it makes exactly one, of
\* the method named by the task, with the whole text column in row order and
\* the task parameters; when it returns, the dataset is the input with the
\* output column set, row by row, to the results of the backend.
C14_ProcessCallsTask ==
  modelOp.last.status # "none" =>
    LET op == modelOp.op
        last == modelOp.last
        reaches == /\ op.text_column \in last.input.cols
                   /\ op.task = "classify" => "labels" \in DOMAIN op.task_params
    IN /\ Len(last.calls) = IF reaches THEN 1 ELSE 0
       /\ reaches =>
            /\ last.calls[1].method = op.task
            /\ last.calls[1].inputs =
                 [i \in 1..Len(last.input.rows) |->
                    last.input.rows[i][op.text_column]]
            /\ last.calls[1].params = op.task_params
            /\ last.calls[1].model = op.model
       /\ last.status = "returned" =>
            /\ reaches
            /\ last.df.cols = last.input.cols \cup {op.output_column}
            /\ Len(last.df.rows) = Len(last.input.rows)
            /\ Len(last.results) = Len(last.input.rows)
            /\ \A i \in 1..Len(last.df.rows) :
                 /\ last.df.rows[i][op.output_column] = last.results[i]
                 /\ \A c \in last.input.cols \ {op.output_column} :
                      last.df.rows[i][c] = last.input.rows[i][c]

C14_Witness ==
  /\ modelOp.last.status = "returned"
  /\ modelOp.op.task = "embeddings"
  /\ modelOp.op.output_column = "embeddings_result"
  /\ Len(modelOp.last.input.rows) = 2
  /\ modelOp.last.calls[1].method = "embeddings"
  /\ modelOp.last.df.rows[2]["embeddings_result"] = modelOp.last.results[2]
  /\ modelOp.last.results[1] # modelOp.last.results[2]

\* C26: a ModelOperator creates its backend exactly once, at construction,
\* through the registry; every process call goes to that instance and
\* reaches it whatever class the backend name is registered with by then.
C26_BackendCreatedOnce ==
  /\ modelOp.status = "constructed" =>
       /\ Len(modelOp.creates) = 1
       /\ modelOp.creates[1].status = "returned"
       /\ modelOp.creates[1].model_type = modelOp.args.model_type
       /\ Len(modelOp.creates[1].ctorCalls) = 1
       /\ modelOp.op.model.class = modelOp.creates[1].ctorCalls[1].class
       /\ modelOp.op.model = lastCreate.instance
  /\ modelOp.last.status # "none" =>
       /\ modelOp.status = "constructed"
       /\ \A k \in 1..Len(modelOp.last.calls) :
            modelOp.last.calls[k].model = lastCreate.instance
       /\ (/\ modelOp.op.text_column \in modelOp.last.input.cols
           /\ modelOp.op.task = "classify" =>
                "labels" \in DOMAIN modelOp.op.task_params) =>
            Len(modelOp.last.calls) = 1

C26_Witness ==
  /\ modelOp.last.status = "returned"
  /\ modelOp.op.model.class = "UserModel"
  /\ registry[modelOp.op.model_type] = "LocalModel"
  /\ Len(modelOp.last.calls) = 1
  /\ modelOp.last.calls[1].model = modelOp.op.model

EndpointOf(method) ==
  CASE method = "generate" -> "/generate"
    [] method = "embeddings" -> "/embeddings"
    [] method = "classify" -> "/classify"

\* C28: each LocalModel capability call issues exactly one HTTP POST, to
\* base_url + "/generate", "/embeddings" or "/classify"; on a non-success
\* status the call raises, returns no result and sends no second request.
C28_LocalOnePost ==
  (lastCall.status # "none" /\ lastCall.self.class = "LocalModel") =>
    /\ Len(lastCall.requests) = 1
    /\ lastCall.requests[1].url =
         <<lastCall.self.base_url, EndpointOf(lastCall.method)>>
    /\ lastCall.requests[1].inputs = lastCall.inputs
    /\ lastCall.reply = "error" =>
         /\ lastCall.status = "raised"
         /\ lastCall.results = <<>>
    /\ lastCall.reply # "error" => lastCall.status = "returned"

C28_Witness ==
  /\ lastCall.status = "raised"
  /\ lastCall.self.class = "LocalModel"
  /\ lastCall.method = "classify"
  /\ Len(lastCall.inputs) = 2
  /\ Len(lastCall.requests) = 1

\* the instance holds nothing that is still open or loaded
Released(self) ==
  /\ self.session # "open"
  /\ self.client # "open"
  /\ self.tokenizer # "loaded"
  /\ self.pipelines = {}

InLengthRange(op, r) ==
  /\ op.min_length <= Len(r[op.text_column])
  /\ op.max_length = NoneInt \/ Len(r[op.text_column]) <= op.max_length

\* the rows of df without the columns named in names
RowsWithout(df, names) ==
  [i \in 1..Len(df.rows) |-> [c \in df.cols \ names |-> df.rows[i][c]]]

\* C17: TextLengthFilter keeps exactly the rows whose text length L has
\* min_length <= L <= max_length, bounds inclusive, max_length None meaning
\* no upper bound; rows "ab" and "abcdefghij" with min_length 5 leave the
\* second row only.
C17_LengthFilterKeepsRange ==
  (lastApply.op.kind = "TextLengthFilter" /\ ~lastApply.out.raised) =>
    LET op == lastApply.op
        expected == MkDF(lastApply.input.cols,
                         SelectSeq(lastApply.input.rows,
                                   LAMBDA r : InLengthRange(op, r)))
    IN /\ RowsWithout(lastApply.out.df, {"text_length"})
            = RowsWithout(expected, {"text_length"})
       /\ (lastApply.input = OpsB /\ op.min_length = 5
           /\ op.max_length = NoneInt) =>
            lastApply.out.df.rows = << [text |-> "abcdefghij", len |-> 10] >>

C17_Witness ==
  /\ lastApply.op.kind = "TextLengthFilter"
  /\ ~lastApply.out.raised
  /\ lastApply.op.min_length = 5
  /\ lastApply.op.max_length = 10
  /\ \E i \in 1..Len(lastApply.out.df.rows) :
       Len(lastApply.out.df.rows[i].text) = 5
  /\ \E i \in 1..Len(lastApply.out.df.rows) :
       Len(lastApply.out.df.rows[i].text) = 10
  /\ Len(lastApply.out.df.rows) < Len(lastApply.input.rows)

\* C18: a TextLengthFilter applied to the output of the same filter succeeds
\* and leaves every row of it.
C18_LengthFilterIdempotent ==
  (/\ lastApply.op.kind = "TextLengthFilter"
   /\ lastApply.prev.op = lastApply.op
   /\ lastApply.prev.outdf = lastApply.input) =>
    /\ ~lastApply.out.raised
    /\ lastApply.out.df.rows = lastApply.input.rows

C18_Witness ==
  /\ lastApply.op.kind = "TextLengthFilter"
  /\ lastApply.prev.op = lastApply.op
  /\ lastApply.prev.outdf = lastApply.input
  /\ Len(lastApply.input.rows) > 0
  /\ Len(lastApply.prev.input.rows) > Len(lastApply.input.rows)
  /\ ~lastApply.out.raised

\* the positions of the rows the keep policy retains: the first or the last
\* row of each value, or only the rows whose value occurs once
KeptByPolicy(df, col, keep) ==
  {i \in 1..Len(df.rows) :
     LET same == {j \in 1..Len(df.rows) : df.rows[j][col] = df.rows[i][col]}
     IN CASE keep = "first" -> \A j \in same : i <= j
          [] keep = "last" -> \A j \in same : j <= i
          [] keep = "False" -> same = {i}}

\* C19: TextDeduper leaves the rows its keep policy names: the first
\* occurrence of each value for "first", the last for "last", and only the
\* values that occur once for False.
C19_DeduperKeepPolicy ==
  (lastApply.op.kind = "TextDeduper" /\ ~lastApply.out.raised) =>
    lastApply.out.df.rows =
      RowsAt(lastApply.input.rows,
             KeptByPolicy(lastApply.input, lastApply.op.text_column,
                          lastApply.op.keep), 1)

\* the two datasets hold the same rows, in any order
SameRows(a, b) ==
  /\ Len(a.rows) = Len(b.rows)
  /\ Range(a.rows) = Range(b.rows)

\* C20: the output of TextDeduper has no two rows with the same value in the
\* named column, and a TextDeduper applied to the output of one on the same
\* column leaves every row of it.
C20_DeduperIdempotent ==
  (lastApply.op.kind = "TextDeduper" /\ ~lastApply.out.raised) =>
    LET out == lastApply.out.df
        col == lastApply.op.text_column
    IN /\ \A i, j \in 1..Len(out.rows) :
            out.rows[i][col] = out.rows[j][col] => i = j
       /\ (/\ lastApply.prev.op.kind = "TextDeduper"
           /\ lastApply.prev.op.text_column = col
           /\ lastApply.prev.outdf = lastApply.input) =>
            SameRows(out, lastApply.input)

C20_Witness ==
  /\ lastApply.op.kind = "TextDeduper"
  /\ ~lastApply.out.raised
  /\ lastApply.prev.op = lastApply.op
  /\ lastApply.prev.outdf = lastApply.input
  /\ Len(lastApply.prev.input.rows) >= Len(lastApply.input.rows) + 2
  /\ Len(lastApply.out.df.rows) >= 2

(***************************************************************************)
(* Properties of the range and threshold filters, under FiltersSpec.       *)
(***************************************************************************)
FilterKinds ==
  {"QualityScoreFilter", "ImageResolutionFilter", "AudioDurationFilter",
   "TextLengthFilter"}

\* the process calls of a run that returned
CompletedCalls(run) ==
  {i \in 1..Len(run.calls) : i < Len(run.calls) \/ run.status = "returned"}

\* the dataset call i of a run returned: the input of the next call, or the
\* result of the run
CallOutput(run, i) ==
  IF i < Len(run.calls) THEN run.calls[i + 1].input ELSE run.result

\* rows is made of rows of from, unaltered and in their order
IsSubCollection(rows, from) ==
  \E keep \in SUBSET (1..Len(from)) : rows = RowsAt(from, keep, 1)

\* C21: for every input and configuration, the output rows of
\* QualityScoreFilter, ImageResolutionFilter, AudioDurationFilter and
\* TextLengthFilter are a sub-collection of the input rows, no row added or
\* altered, so the output is no longer than the input.
C21_FiltersMonotonic ==
  \A i \in CompletedCalls(lastRun) :
    lastRun.calls[i].op.kind \in FilterKinds =>
      /\ IsSubCollection(CallOutput(lastRun, i).rows,
                         lastRun.calls[i].input.rows)
      /\ Len(CallOutput(lastRun, i).rows) <= Len(lastRun.calls[i].input.rows)

\* C25: the column set of TextLengthFilter's output equals the column set
\* of its input, also when the input has a column named "text_length".
C25_LengthFilterKeepsColumns ==
  \A i \in CompletedCalls(lastRun) :
    lastRun.calls[i].op.kind = "TextLengthFilter" =>
      CallOutput(lastRun, i).cols = lastRun.calls[i].input.cols

\* a bound of ImageResolutionFilter on a cell: the sentinel 0 of a min
\* bound and None of a max bound impose nothing, a set bound needs a
\* non-null cell within it
MinBoundHolds(bound, v) == bound = 0 \/ (v # NoneInt /\ bound <= v)

MaxBoundHolds(bound, v) == bound = NoneInt \/ (v # NoneInt /\ v <= bound)

KeptByResolution(op, r) ==
  /\ r[op.text_column] # NoneStr
  /\ MinBoundHolds(op.min_width, r.width)
  /\ MaxBoundHolds(op.max_width, r.width)
  /\ MinBoundHolds(op.min_height, r.height)
  /\ MaxBoundHolds(op.max_height, r.height)

\* C29: ImageResolutionFilter keeps exactly the rows whose text key is
\* non-null and whose width and height satisfy every set bound inclusively;
\* an unset bound removes no row, not even one whose width or height is
\* null.
C29_ResolutionFilterKeeps ==
  \A i \in CompletedCalls(lastRun) :
    lastRun.calls[i].op.kind = "ImageResolutionFilter" =>
      CallOutput(lastRun, i) =
        MkDF(lastRun.calls[i].input.cols,
             SelectSeq(lastRun.calls[i].input.rows,
                       LAMBDA r : KeptByResolution(lastRun.calls[i].op, r)))

C29_Witness ==
  /\ lastRun.status = "returned"
  /\ Len(lastRun.ops) = 1
  /\ lastRun.ops[1] = ImageResolutionFilter("text", 0, 2, NoneInt, 4)
  /\ \E r \in Range(lastRun.input.rows) : r.text = NoneStr
  /\ \E r \in Range(lastRun.result.rows) : r.width = NoneInt /\ r.height = 2
  /\ \E r \in Range(lastRun.input.rows) : r.text # NoneStr /\ r.height = 5
  /\ Len(lastRun.result.rows) = 2

\* the columns a filter reads
FilterColumns(op) ==
  CASE op.kind = "TextLengthFilter" -> {op.text_column}
    [] op.kind = "QualityScoreFilter" -> {op.score_column}
    [] op.kind = "AudioDurationFilter" -> {"duration"}
    [] op.kind = "ImageResolutionFilter" ->
         {op.text_column, "width", "height"}

\* C30: for any dataset and any two range or threshold filters f and g on
\* independent columns, the pipeline [f, g] returns the same row set as the
\* pipeline [g, f].
C30_IndependentFiltersCommute ==
  (/\ lastRun.status # "none"
   /\ lastRun.input # NoneDF
   /\ Len(lastRun.ops) = 2
   /\ lastRun.ops[1].kind \in FilterKinds
   /\ lastRun.ops[2].kind \in FilterKinds
   /\ FilterColumns(lastRun.ops[1]) \cap FilterColumns(lastRun.ops[2]) = {}) =>
    LET swapped == RunOutcome(<<lastRun.ops[2], lastRun.ops[1]>>,
                              lastRun.input)
    IN /\ swapped.status = lastRun.status
       /\ lastRun.status = "returned" =>
            SameRows(lastRun.result, swapped.result)

(***************************************************************************)
(* Properties of the writers, under WritersSpec.                           *)
(***************************************************************************)
IsWriter(op) == op.kind \in {"CSVWriter", "LanceWriter"}

WithoutWriters(ops) == SelectSeq(ops, LAMBDA op : ~IsWriter(op))

\* C24: CSVWriter and LanceWriter return their input dataset unchanged; a
\* pipeline with writers at any positions returns what the same pipeline
\* without them returns; a failing write ends the run with its error.
C24_WritersTransparent ==
  (lastRun.status # "none" /\ lastRun.input # NoneDF) =>
    LET bare == RunOutcome(WithoutWriters(lastRun.ops), lastRun.input)
    IN /\ \A i \in CompletedCalls(lastRun) :
            IsWriter(lastRun.calls[i].op) =>
              CallOutput(lastRun, i) = lastRun.calls[i].input
       /\ lastRun.status = "returned" =>
            /\ bare.status = "returned"
            /\ bare.result = lastRun.result
       /\ \A i \in 1..Len(lastRun.calls) :
            (/\ IsWriter(lastRun.calls[i].op)
             /\ lastRun.calls[i].op.file_path \in UnwritablePaths) =>
              /\ lastRun.status = "raised"
              /\ lastRun.error = "PermissionError"
              /\ lastRun.result = NoneDF
              /\ i = Len(lastRun.calls)
       /\ lastRun.status = "raised" =>
            \/ /\ IsWriter(lastRun.calls[Len(lastRun.calls)].op)
               /\ lastRun.calls[Len(lastRun.calls)].op.file_path
                    \in UnwritablePaths
            \/ /\ bare.status = "raised"
               /\ bare.error = lastRun.error

C24_Witness ==
  /\ lastRun.status = "returned"
  /\ lastRun.ops = << CSVWriter(OutPath), TextLengthFilter("text", 5, NoneInt),
                      LanceWriter("output/processed.lance") >>
  /\ Len(lastRun.result.rows) > 0
  /\ Len(lastRun.result.rows) < Len(lastRun.input.rows)

(***************************************************************************)
(* Properties of TextQualityEvaluator, under EvaluatorSpec.  Scores are in *)
(* thousandths.                                                            *)
(***************************************************************************)
\* C22: every score the evaluator appends is within [0.0, 1.0], equal texts
\* get equal scores, an empty or absent text scores 0.0, and the output is
\* the input with the score column added: every row kept, no other column
\* changed.
C22_ScoreBounded ==
  (lastApply.op.kind = "TextQualityEvaluator" /\ ~lastApply.out.raised) =>
    LET op == lastApply.op
        in == lastApply.input
        out == lastApply.out.df
    IN /\ out.cols = in.cols \cup {op.score_column}
       /\ Len(out.rows) = Len(in.rows)
       /\ \A i \in 1..Len(in.rows) :
            /\ \A c \in in.cols \ {op.score_column} :
                 out.rows[i][c] = in.rows[i][c]
            /\ out.rows[i][op.score_column] \in 0..1000
            /\ in.rows[i][op.text_column] \in {<<>>, NoneText} =>
                 out.rows[i][op.score_column] = 0
            /\ \A j \in 1..Len(in.rows) :
                 in.rows[i][op.text_column] = in.rows[j][op.text_column] =>
                   out.rows[i][op.score_column] = out.rows[j][op.score_column]

C22_Witness ==
  /\ lastApply.op.kind = "TextQualityEvaluator"
  /\ ~lastApply.out.raised
  /\ lastApply.input = TextsA
  /\ lastApply.out.df.rows[1][lastApply.op.score_column] > 0
  /\ lastApply.out.df.rows[3][lastApply.op.score_column] = 0
  /\ lastApply.out.df.rows[5][lastApply.op.score_column] = 1000

\* the components saturate: 0.5 from 1000 characters on, 0.3 from 20
\* punctuation marks on, 0.2 from 100 words on
Saturates(text, parts) ==
  /\ Len(text) >= 1000 => parts.length_score = 500
  /\ PunctuationCount(text) >= 20 => parts.punctuation_score = 300
  /\ WordCount(text) >= 100 => parts.word_score = 200

\* C23: "Great! Great! Great?" yields length_score 0.021, punctuation_score
\* 0.15 and word_score 0.06, a total of 0.231, and the components saturate
\* at 0.5, 0.3 and 0.2.
C23_GreatScores ==
  (lastApply.op.kind = "TextQualityEvaluator" /\ ~lastApply.out.raised) =>
    \A i \in 1..Len(lastApply.input.rows) :
      LET text == lastApply.input.rows[i][lastApply.op.text_column]
      IN /\ text = GreatText =>
              /\ lastApply.out.parts[i] =
                   [length_score |-> 21, punctuation_score |-> 150,
                    word_score |-> 60]
              /\ lastApply.out.df.rows[i][lastApply.op.score_column] = 231
         /\ Saturates(text, lastApply.out.parts[i])

\* C23, amended: "Great! Great! Great?" has 20 characters, 3 punctuation
\* marks and 3 words and yields length_score 0.020, punctuation_score 0.15
\* and word_score 0.03, a total of 0.200; the components saturate at 0.5,
\* 0.3 and 0.2.
C23_GreatScoresAmended ==
  (lastApply.op.kind = "TextQualityEvaluator" /\ ~lastApply.out.raised) =>
    \A i \in 1..Len(lastApply.input.rows) :
      LET text == lastApply.input.rows[i][lastApply.op.text_column]
      IN /\ text = GreatText =>
              /\ Len(text) = 20
              /\ PunctuationCount(text) = 3
              /\ WordCount(text) = 3
              /\ lastApply.out.parts[i] =
                   [length_score |-> 20, punctuation_score |-> 150,
                    word_score |-> 30]
              /\ lastApply.out.df.rows[i][lastApply.op.score_column] = 200
         /\ Saturates(text, lastApply.out.parts[i])

C23_Witness ==
  /\ lastApply.op.kind = "TextQualityEvaluator"
  /\ ~lastApply.out.raised
  /\ \E i \in 1..Len(lastApply.input.rows) :
       /\ lastApply.input.rows[i][lastApply.op.text_column] = GreatText
       /\ lastApply.out.df.rows[i][lastApply.op.score_column] = 200
  /\ \E i \in 1..Len(lastApply.input.rows) :
       /\ Len(lastApply.input.rows[i][lastApply.op.text_column]) >= 1000
       /\ lastApply.out.parts[i].length_score = 500
       /\ lastApply.out.parts[i].punctuation_score = 300
       /\ lastApply.out.parts[i].word_score = 200

====
